---- MODULE Spec2Model ----
(***************************************************************************)
(* Thompson-sampling bandit policy of templates/policy.py: the `bandit`    *)
(* table of brain.db, the arm catalog arms.yaml, and the three operations  *)
(* _ensure_priors, sample_arm and update_reward, each run by a caller that *)
(* opens its own sqlite3 connection.  Every SQL statement and every commit *)
(* is one step, so callers interleave between the SELECT of an operation   *)
(* and its write.                                                          *)
(*                                                                         *)
(* Numbers are fixed point with three decimals: 1.0 is Unit, 1e-3 is 1.    *)
(*                                                                         *)
(* The second part models the two webhook handlers of app.py, one step per *)
(* check or outbound call, and the third record_purchase and               *)
(* _email_to_buyer of api_hooks.py with the interpreter's sys.path.        *)
(***************************************************************************)
EXTENDS Integers, Sequences, FiniteSets, TLC

\* ------------------------------------------------------------------ bounds
\* Calls issued in one behaviour, by all callers together.
MaxCalls == 3
\* Distinct outcomes of one Beta draw (their order is all sample_arm reads).
MaxDraw == 2
\* Longest buyer email, in characters.
MaxEmailLen == 2

\* --------------------------------------------------------------- constants
\* 1.0 in fixed point (the prior 1.0 and the increment 1 of update_reward).
Unit == 1000
\* The floor 1e-3 of max(r["alpha"],1e-3), in fixed point.
EpsFloor == 1
\* The reward threshold 0.5 of update_reward, in fixed point.
Threshold == 500
\* best_draw=-1, below every draw.
BestDrawInit == -1

Procs == {1, 2}
NoProc == 0
ArmNames == {"a", "b"}
NoName == ""
\* Reward arguments: negative, just below 0.5, exactly 0.5, 1.0, above 1.
Rewards == {0 - Unit, Threshold - 1, Threshold, Unit, 2 * Unit}
Draws == 1..MaxDraw

\* ------------------------------------------------------------------ values
\* A stored column value with its SQLite storage class.
Num(x) == [t |-> "real", v |-> x]
Text == [t |-> "text", v |-> 0]
IsReal(val) == val.t = "real"

\* A row of the table bandit(arm, alpha, beta).
Row(n, al, be) == [arm |-> n, alpha |-> al, beta |-> be]

\* An entry of arms.yaml: the name and the metadata sample_arm passes through.
Meta == ("a" :> "subject A") @@ ("b" :> "subject B")
Arm(n) == [name |-> n, meta |-> Meta[n]]
NoArm == [name |-> NoName, meta |-> ""]

\* The catalogs arms.yaml may hold: duplicate-free lists of arms (arm "b" is
\* never the only arm, so it is the arm that is added to and removed from
\* the catalog).
Catalogs == {<<>>, <<Arm("a")>>, <<Arm("a"), Arm("b")>>, <<Arm("b"), Arm("a")>>}

\* ------------------------------------------------------------ table (SQL)
Range(s) == {s[i] : i \in 1..Len(s)}
Names(tbl) == {tbl[i].arm : i \in 1..Len(tbl)}
HasRow(tbl, n) == n \in Names(tbl)
RowOf(tbl, n) == CHOOSE r \in Range(tbl) : r.arm = n

\* The key of bandit: arm is unique, so a second row of the same arm conflicts.
PrimaryKeyConflict(tbl, n) == HasRow(tbl, n)

\* SELECT alpha,beta FROM bandit WHERE arm=? ... fetchone(): <<row>> or <<>>.
SqlSelectOne(tbl, n) == SelectSeq(tbl, LAMBDA r : r.arm = n)

\* Mutant of SqlInsertOrReplace: the table is rewritten with the new row alone.
SqlReplaceAll(tbl, n, al, be) == <<Row(n, al, be)>>

\* INSERT OR REPLACE: a conflicting row is deleted, the new row is appended.
SqlInsertOrReplace(tbl, n, al, be) ==
  Append(SelectSeq(tbl, LAMBDA r : ~(PrimaryKeyConflict(tbl, n) /\ r.arm = n)),
         Row(n, al, be))

\* INSERT (no conflict clause): appends; the caller checks the conflict.
SqlInsert(tbl, n, al, be) == Append(tbl, Row(n, al, be))

\* UPDATE bandit SET alpha=?, beta=? WHERE arm=?: in place, no row if absent.
SqlUpdate(tbl, n, al, be) ==
  [i \in 1..Len(tbl) |-> IF tbl[i].arm = n THEN Row(n, al, be) ELSE tbl[i]]

\* ------------------------------------------------------------ update_reward
\* Mutant of Success: the boundary 0.5 counted as a failure.
SuccessStrict(reward) == IF reward > Threshold THEN 1 ELSE 0

\* success = 1 if reward>=0.5 else 0
Success(reward) == IF reward >= Threshold THEN 1 ELSE 0

\* alpha+success and beta+(1-success); Python raises TypeError on text.
Addable(row) == IsReal(row.alpha) /\ IsReal(row.beta)
NewAlpha(row, reward) == Num(row.alpha.v + Success(reward) * Unit)
NewBeta(row, reward) == Num(row.beta.v + (1 - Success(reward)) * Unit)

\* --------------------------------------------------------------- sample_arm
\* max(x, 1e-3): the floor for zero and negative numbers.
Clamp(val) == IF val.v > EpsFloor THEN val.v ELSE EpsFloor

\* The exception the draw loop raises on `rows`, "" if none: max() of a text
\* value and a float is a TypeError; betavariate needs both parameters > 0.
DrawError(rows) ==
  IF \E i \in 1..Len(rows) : ~IsReal(rows[i].alpha) \/ ~IsReal(rows[i].beta)
  THEN "TypeError"
  ELSE IF \E i \in 1..Len(rows) : Clamp(rows[i].alpha) <= 0 \/ Clamp(rows[i].beta) <= 0
       THEN "ValueError"
       ELSE ""

\* Mutant of Better: a draw equal to the best one replaces it.
BetterOrEqual(draw, best_draw) == draw >= best_draw

\* Mutant of Better: the comparison turned round.
BetterReversed(draw, best_draw) == draw < best_draw

\* if draw>best_draw: best_draw=draw; best=r["arm"]
Better(draw, best_draw) == draw > best_draw

\* The loop `for r in rows` from row i on, with the draws d[1..Len(rows)].
RECURSIVE BestFrom(_, _, _, _, _)
BestFrom(rows, d, i, best, best_draw) ==
  IF i > Len(rows) THEN best
  ELSE IF Better(d[i], best_draw)
       THEN BestFrom(rows, d, i + 1, rows[i].arm, d[i])
       ELSE BestFrom(rows, d, i + 1, best, best_draw)

\* best=None; best_draw=-1; the loop.
Best(rows, d) == BestFrom(rows, d, 1, NoName, BestDrawInit)

\* next(a for a in arms if a["name"]==best): <<entry>>, or <<>> (StopIteration).
NextArm(arms, best) ==
  LET hit == SelectSeq(arms, LAMBDA a : a.name = best)
  IN  IF hit = <<>> THEN <<>> ELSE <<hit[1]>>

\* ------------------------------------------------------------------- state
VARIABLES
  bandit,   \* the committed rows of table bandit, in rowid order
  catalog,  \* the arms of arms.yaml
  lock,     \* the caller whose connection holds the write lock, or NoProc
  pc,       \* each caller's position
  op,       \* the operation each caller runs (or ran last)
  arg,      \* its arguments (arm, reward)
  rows,     \* the rows its last SELECT fetched
  arms,     \* the catalog it loaded
  idx,      \* its position in `for a in arms`
  changed,  \* its flag changed
  tx,       \* the table as its open transaction sees it
  ret,      \* the outcome of its last call
  pre,      \* the committed table when its call began
  calls,    \* the calls issued so far
  env,      \* app.py: the configuration read from the environment at import
  wpc,      \* the position of the webhook handler
  req,      \* the request it serves
  trace,    \* what it has read and called for this request, with the outcomes
  resp,     \* its response
  hpc,      \* api_hooks.py: the position of record_purchase
  email,    \* its argument email
  buyer,    \* its local buyer
  code,     \* its local code
  report,   \* whether the report file exists
  sys_path, \* sys.path
  hlog,     \* what this call of record_purchase has done
  purchases \* the calls of record_purchase so far

policyVars == <<bandit, catalog, lock, pc, op, arg, rows, arms, idx, changed, tx, ret, pre, calls>>
webVars == <<env, wpc, req, trace, resp>>
hookVars == <<hpc, email, buyer, code, report, sys_path, hlog, purchases>>
vars == <<policyVars, webVars, hookVars>>

NoArg == [arm |-> NoName, reward |-> 0]
NoRet == [st |-> "none", exc |-> "", arm |-> NoArm]
Ok(a) == [st |-> "ok", exc |-> "", arm |-> a]
Raised(e) == [st |-> "raise", exc |-> e, arm |-> NoArm]

\* The table a caller's connection reads: its own transaction's, if it has one.
View(p) == IF lock = p THEN tx[p] ELSE bandit

\* app.py before any request: nothing configured, no request served.
NoEnv ==
  [STRIPE_WEBHOOK_SECRET |-> "", PAYPAL_CLIENT_ID |-> "",
   PAYPAL_CLIENT_SECRET |-> "", PAYPAL_WEBHOOK_ID |-> ""]
NoReq == [route |-> "none"]
NoResp == [body |-> "", code |-> 0]
WebIdle == wpc = "idle" /\ req = NoReq /\ trace = <<>> /\ resp = NoResp

\* api_hooks.py before any purchase: sys.path as the interpreter set it up.
WEB_SRC == "web_automation/src"
InitialSysPath == <<"", "site-packages">>
None == [given |-> FALSE, text |-> <<>>]
NoCode == -1
HookIdle ==
  /\ hpc = "idle"
  /\ email = None
  /\ buyer = <<>>
  /\ code = NoCode
  /\ report = FALSE
  /\ sys_path = InitialSysPath
  /\ hlog = <<>>
  /\ purchases = 0

\* The brain.db of a fresh installation: the table exists and is empty.
Init ==
  /\ bandit = <<>>
  /\ catalog \in Catalogs
  /\ lock = NoProc
  /\ pc = [p \in Procs |-> "idle"]
  /\ op = [p \in Procs |-> "none"]
  /\ arg = [p \in Procs |-> NoArg]
  /\ rows = [p \in Procs |-> <<>>]
  /\ arms = [p \in Procs |-> <<>>]
  /\ idx = [p \in Procs |-> 0]
  /\ changed = [p \in Procs |-> FALSE]
  /\ tx = [p \in Procs |-> <<>>]
  /\ ret = [p \in Procs |-> NoRet]
  /\ pre = [p \in Procs |-> <<>>]
  /\ calls = 0
  /\ env = NoEnv
  /\ WebIdle
  /\ HookIdle

\* arms.yaml is edited by hand, between calls: a call that begins while no
\* other call runs may find any catalog, another call finds the current one.
Editable == \A q \in Procs : pc[q] = "idle"

\* A caller enters operation o with arguments a at position `label`.
Begin(p, o, a, label) ==
  /\ pc[p] = "idle"
  /\ calls < MaxCalls
  /\ catalog' \in (IF Editable THEN Catalogs ELSE {catalog})
  /\ pc' = [pc EXCEPT ![p] = label]
  /\ op' = [op EXCEPT ![p] = o]
  /\ arg' = [arg EXCEPT ![p] = a]
  /\ ret' = [ret EXCEPT ![p] = NoRet]
  /\ pre' = [pre EXCEPT ![p] = bandit]
  /\ calls' = calls + 1
  /\ UNCHANGED <<bandit, lock, rows, arms, idx, changed, tx, webVars, hookVars>>

\* The call returns (or raises) r: its locals and its connection are dropped.
\* A connection dropped inside a transaction rolls it back.
Leave(p, r) ==
  /\ pc' = [pc EXCEPT ![p] = "idle"]
  /\ ret' = [ret EXCEPT ![p] = r]
  /\ rows' = [rows EXCEPT ![p] = <<>>]
  /\ arms' = [arms EXCEPT ![p] = <<>>]
  /\ idx' = [idx EXCEPT ![p] = 0]
  /\ changed' = [changed EXCEPT ![p] = FALSE]
  /\ tx' = [tx EXCEPT ![p] = <<>>]
  /\ UNCHANGED <<catalog, op, arg, pre, calls, webVars, hookVars>>

Rollback(p) == lock' = IF lock = p THEN NoProc ELSE lock

CallEnsurePriors(p) == Begin(p, "ensure_priors", NoArg, "e_select")

CallSampleArm(p) == Begin(p, "sample_arm", NoArg, "e_select")

CallUpdateReward(p) ==
  \E n \in ArmNames, r \in Rewards :
    Begin(p, "update_reward", [arm |-> n, reward |-> r], "u_select")

\* ------------------------------------------------------------ _ensure_priors
\* rows = SELECT ...; have = {...}; arms = load_arms(); changed=False
ESelect(p) ==
  /\ pc[p] = "e_select"
  /\ rows' = [rows EXCEPT ![p] = bandit]
  /\ arms' = [arms EXCEPT ![p] = catalog]
  /\ changed' = [changed EXCEPT ![p] = FALSE]
  /\ idx' = [idx EXCEPT ![p] = 1]
  /\ pc' = [pc EXCEPT ![p] = "e_loop"]
  /\ UNCHANGED <<bandit, catalog, lock, op, arg, tx, ret, pre, calls, webVars, hookVars>>

\* have = {r["arm"] for r in rows}
Have(p) == Names(rows[p])

\* The arms this invocation has written so far.
Inserted(p) == {arms[p][i].name : i \in {j \in 1..(idx[p] - 1) : arms[p][j].name \notin Have(p)}}

\* Mutant of Missing: every arm of the catalog is written.
MissingAlways(p) == TRUE

\* if a["name"] not in have
Missing(p) == arms[p][idx[p]].name \notin Have(p)

\* One turn of the loop for an arm that is in `have`.
ESkip(p) ==
  /\ pc[p] = "e_loop"
  /\ idx[p] <= Len(arms[p])
  /\ ~Missing(p)
  /\ idx' = [idx EXCEPT ![p] = @ + 1]
  /\ UNCHANGED <<bandit, catalog, lock, pc, op, arg, rows, arms, changed, tx, ret, pre, calls, webVars, hookVars>>

\* The row _ensure_priors writes for arm n into table tbl.
PriorWrite(tbl, n) == SqlInsertOrReplace(tbl, n, Num(Unit), Num(Unit))

\* Mutant of EInsert: every INSERT is committed on its own (autocommit).
EInsertAutocommit(p) ==
  /\ pc[p] = "e_loop"
  /\ idx[p] <= Len(arms[p])
  /\ Missing(p)
  /\ lock \in {NoProc, p}
  /\ bandit' = PriorWrite(View(p), arms[p][idx[p]].name)
  /\ tx' = [tx EXCEPT ![p] = bandit']
  /\ lock' = p
  /\ changed' = [changed EXCEPT ![p] = TRUE]
  /\ idx' = [idx EXCEPT ![p] = @ + 1]
  /\ UNCHANGED <<catalog, pc, op, arg, rows, arms, ret, pre, calls, webVars, hookVars>>

\* One turn of the loop for an arm that is not in `have`: the write takes the
\* write lock (and waits while another connection holds it).
EInsert(p) ==
  /\ pc[p] = "e_loop"
  /\ idx[p] <= Len(arms[p])
  /\ Missing(p)
  /\ lock \in {NoProc, p}
  /\ tx' = [tx EXCEPT ![p] = PriorWrite(View(p), arms[p][idx[p]].name)]
  /\ lock' = p
  /\ changed' = [changed EXCEPT ![p] = TRUE]
  /\ idx' = [idx EXCEPT ![p] = @ + 1]
  /\ UNCHANGED <<bandit, catalog, pc, op, arg, rows, arms, ret, pre, calls, webVars, hookVars>>

\* if changed: cx.commit(); cx.close(); then back in sample_arm, or done.
ECommit(p) ==
  /\ pc[p] = "e_loop"
  /\ idx[p] > Len(arms[p])
  /\ IF changed[p]
     THEN bandit' = tx[p] /\ lock' = NoProc
     ELSE UNCHANGED <<bandit, lock>>
  /\ IF op[p] = "sample_arm"
     THEN /\ pc' = [pc EXCEPT ![p] = "s_select"]
          /\ rows' = [rows EXCEPT ![p] = <<>>]
          /\ arms' = [arms EXCEPT ![p] = <<>>]
          /\ idx' = [idx EXCEPT ![p] = 0]
          /\ changed' = [changed EXCEPT ![p] = FALSE]
          /\ tx' = [tx EXCEPT ![p] = <<>>]
          /\ UNCHANGED <<catalog, op, arg, ret, pre, calls, webVars, hookVars>>
     ELSE Leave(p, Ok(NoArm))

\* --------------------------------------------------------------- sample_arm
\* rows = SELECT arm, alpha, beta FROM bandit ... fetchall(); cx.close()
SSelect(p) ==
  /\ pc[p] = "s_select"
  /\ rows' = [rows EXCEPT ![p] = bandit]
  /\ pc' = [pc EXCEPT ![p] = "s_draw"]
  /\ UNCHANGED <<bandit, catalog, lock, op, arg, arms, idx, changed, tx, ret, pre, calls, webVars, hookVars>>

\* What sample_arm gives for the fetched rows, the draws d and the catalog.
SampleResult(fetched, d, cat) ==
  IF DrawError(fetched) # "" THEN Raised(DrawError(fetched))
  ELSE IF NextArm(cat, Best(fetched, d)) = <<>> THEN Raised("StopIteration")
       ELSE Ok(NextArm(cat, Best(fetched, d))[1])

\* The draw loop, arms = load_arms() and the return.
SDraw(p) ==
  /\ pc[p] = "s_draw"
  /\ \E d \in [1..Len(rows[p]) -> Draws] : Leave(p, SampleResult(rows[p], d, catalog))
  /\ UNCHANGED <<bandit, lock>>

\* ------------------------------------------------------------ update_reward
\* row = SELECT alpha,beta FROM bandit WHERE arm=? ... fetchone()
USelect(p) ==
  /\ pc[p] = "u_select"
  /\ rows' = [rows EXCEPT ![p] = SqlSelectOne(bandit, arg[p].arm)]
  /\ pc' = [pc EXCEPT ![p] = "u_write"]
  /\ UNCHANGED <<bandit, catalog, lock, op, arg, arms, idx, changed, tx, ret, pre, calls, webVars, hookVars>>

\* Mutant of FirstWrite: the new row is the bare prior, the reward is dropped.
FirstWritePrior(tbl, n, reward) == SqlInsert(tbl, n, Num(Unit), Num(Unit))

\* The row update_reward inserts for an arm it found no row of.
FirstWrite(tbl, n, reward) ==
  SqlInsert(tbl, n, Num(Unit + Success(reward) * Unit), Num(Unit + (1 - Success(reward)) * Unit))

\* The row update_reward writes over the row it read.
NextWrite(tbl, n, row, reward) ==
  SqlUpdate(tbl, n, NewAlpha(row, reward), NewBeta(row, reward))

\* A write enters the transaction of p, which the commit step ends.
Stage(p, tbl) ==
  /\ tx' = [tx EXCEPT ![p] = tbl]
  /\ lock' = p
  /\ pc' = [pc EXCEPT ![p] = "u_commit"]
  /\ UNCHANGED <<bandit, catalog, op, arg, rows, arms, idx, changed, ret, pre, calls, webVars, hookVars>>

\* row is None: the INSERT, which the key refuses if the row exists by now.
UInsert(p) ==
  /\ pc[p] = "u_write"
  /\ rows[p] = <<>>
  /\ lock \in {NoProc, p}
  /\ IF PrimaryKeyConflict(View(p), arg[p].arm)
     THEN Leave(p, Raised("IntegrityError")) /\ Rollback(p) /\ UNCHANGED bandit
     ELSE Stage(p, FirstWrite(View(p), arg[p].arm, arg[p].reward))

\* row is not None: the UPDATE with the values computed from the row read.
UUpdate(p) ==
  /\ pc[p] = "u_write"
  /\ rows[p] # <<>>
  /\ IF ~Addable(rows[p][1])
     THEN Leave(p, Raised("TypeError")) /\ UNCHANGED <<bandit, lock>>
     ELSE /\ lock \in {NoProc, p}
          /\ Stage(p, NextWrite(View(p), arg[p].arm, rows[p][1], arg[p].reward))

\* cx.commit(); cx.close()
UCommit(p) ==
  /\ pc[p] = "u_commit"
  /\ bandit' = tx[p]
  /\ lock' = NoProc
  /\ Leave(p, Ok(NoArm))

\* ------------------------------------------------------------- environment
\* A write that finds the write lock held by another connection for longer
\* than the busy timeout: sqlite3.OperationalError (database is locked).
Writing(p) ==
  IF pc[p] = "e_loop" THEN idx[p] <= Len(arms[p]) /\ Missing(p)
  ELSE IF pc[p] = "u_write" THEN (IF rows[p] = <<>> THEN TRUE ELSE Addable(rows[p][1]))
  ELSE FALSE

Busy(p) ==
  /\ Writing(p)
  /\ lock \notin {NoProc, p}
  /\ Leave(p, Raised("OperationalError"))
  /\ UNCHANGED <<bandit, lock>>

\* The position of p is an SQL statement or a commit on its connection.
OnStore(p) ==
  IF pc[p] = "e_loop"
  THEN (IF idx[p] <= Len(arms[p]) THEN Missing(p) ELSE changed[p])
  ELSE pc[p] \in {"e_select", "s_select", "u_select", "u_write", "u_commit"}

\* Mutant of StoreFail: the failure is caught and the call returns normally.
StoreFailSwallowed(p) ==
  /\ OnStore(p)
  /\ Leave(p, Ok(NoArm))
  /\ Rollback(p)
  /\ UNCHANGED bandit

\* The store fails under a statement or a commit (file unreachable, disk
\* error, commit refused): sqlite3.OperationalError leaves the operation,
\* which has no try/except, and the open transaction is rolled back.
StoreFail(p) ==
  /\ OnStore(p)
  /\ Leave(p, Raised("OperationalError"))
  /\ Rollback(p)
  /\ UNCHANGED bandit

Step(p) ==
  \/ CallEnsurePriors(p)
  \/ CallSampleArm(p)
  \/ CallUpdateReward(p)
  \/ ESelect(p)
  \/ ESkip(p)
  \/ EInsert(p)
  \/ ECommit(p)
  \/ SSelect(p)
  \/ SDraw(p)
  \/ USelect(p)
  \/ UInsert(p)
  \/ UUpdate(p)
  \/ UCommit(p)

\* Callers in separate execution contexts, every interleaving of their steps.
Next == \E p \in Procs : Step(p) \/ Busy(p)

Spec == Init /\ [][Next]_vars

\* One caller: calls run one after the other.
NextSeq == Step(1)

SpecSeq == Init /\ [][NextSeq]_vars

\* The store fails under a statement or the commit of _ensure_priors.
PriorsFail(p) == pc[p] \in {"e_select", "e_loop"} /\ StoreFail(p)

\* The callers of Spec on a store that may fail inside _ensure_priors.
NextFail == \E p \in Procs : Step(p) \/ Busy(p) \/ PriorsFail(p)

SpecFail == Init /\ [][NextFail]_vars

\* One caller, one call after the other, on a store that may fail.
NextFailSeq == Step(1) \/ StoreFail(1)

SpecFailSeq == Init /\ [][NextFailSeq]_vars

\* A brain.db written by other hands too: any rows, with zero, negative and
\* non-numeric values among them.
ExtValues == {Num(0 - Unit), Num(0), Num(Unit), Text}
ExtRows == {Row(n, al, be) : n \in ArmNames, al \in ExtValues, be \in ExtValues}
ExtTables ==
  {<<>>} \cup {<<r>> : r \in ExtRows}
         \cup {<<r, q>> : <<r, q>> \in {x \in ExtRows \X ExtRows : x[1].arm # x[2].arm}}

InitExt ==
  /\ bandit \in ExtTables
  /\ catalog \in Catalogs
  /\ lock = NoProc
  /\ pc = [p \in Procs |-> "idle"]
  /\ op = [p \in Procs |-> "none"]
  /\ arg = [p \in Procs |-> NoArg]
  /\ rows = [p \in Procs |-> <<>>]
  /\ arms = [p \in Procs |-> <<>>]
  /\ idx = [p \in Procs |-> 0]
  /\ changed = [p \in Procs |-> FALSE]
  /\ tx = [p \in Procs |-> <<>>]
  /\ ret = [p \in Procs |-> NoRet]
  /\ pre = [p \in Procs |-> <<>>]
  /\ calls = 0
  /\ env = NoEnv
  /\ WebIdle
  /\ HookIdle

SpecExt == InitExt /\ [][NextSeq]_vars

\* The policy idle on an empty table and an empty catalog.
PolicyIdle ==
  /\ bandit = <<>>
  /\ catalog = <<>>
  /\ lock = NoProc
  /\ pc = [p \in Procs |-> "idle"]
  /\ op = [p \in Procs |-> "none"]
  /\ arg = [p \in Procs |-> NoArg]
  /\ rows = [p \in Procs |-> <<>>]
  /\ arms = [p \in Procs |-> <<>>]
  /\ idx = [p \in Procs |-> 0]
  /\ changed = [p \in Procs |-> FALSE]
  /\ tx = [p \in Procs |-> <<>>]
  /\ ret = [p \in Procs |-> NoRet]
  /\ pre = [p \in Procs |-> <<>>]
  /\ calls = 0

\* =================================================== app.py: the webhooks
\* os.getenv(NAME, ""): a variable is the empty string or it is set.
EnvValues == {"", "set"}
Envs ==
  [STRIPE_WEBHOOK_SECRET : EnvValues, PAYPAL_CLIENT_ID : EnvValues,
   PAYPAL_CLIENT_SECRET : EnvValues, PAYPAL_WEBHOOK_ID : EnvValues]

\* What a JSON object holds under a key: no such key, null, or an object.
Absent == "absent"
Null == "null"
Object == "object"
Fields == {Absent, Null, Object}

\* d.get(key, {}): the default stands in for an absent key only, null is None.
GetOrEmpty(field) == IF field = Absent THEN Object ELSE field

\* (d.get(key, {}) or {}): None is replaced as well.
GetOrEmptyOr(field) == IF GetOrEmpty(field) = Null THEN Object ELSE GetOrEmpty(field)

\* x.get(...) raises AttributeError when x is None.
GetRaises(x) == x = Null

\* The outcomes of stripe.Webhook.construct_event on a request.
Constructs == {"event", "ValueError", "SignatureVerificationError"}

StripeTypes ==
  {"checkout.session.completed", "payment_intent.succeeded",
   "invoice.payment_succeeded", "customer.created"}

\* A request to /stripe/webhook: what construct_event makes of it and, of the
\* event, its type and data.object.customer_details.
StripeRequests ==
  [route : {"stripe"}, construct : Constructs, type : StripeTypes, customer_details : Fields]

PaypalTypes == {"PAYMENT.CAPTURE.COMPLETED", "CHECKOUT.ORDER.APPROVED", "BILLING.PLAN.CREATED"}

\* A request to /paypal/webhook: event_type, resource.amount, resource.payer.
PaypalRequests ==
  [route : {"paypal"}, event_type : PaypalTypes, amount : Fields, payer : Fields]

\* The outcomes of the access-token request and of the verification call
\* (the verification_status of the answer, or an exception).
TokenOutcomes == {"ok", "error"}
VerifyOutcomes == {"SUCCESS", "FAILURE", "error"}

Called(c, o) == [call |-> c, out |-> o]

\* The handler returns (body, code).
Respond(body, code_) ==
  /\ resp' = [body |-> body, code |-> code_]
  /\ wpc' = "idle"

\* if not STRIPE_WEBHOOK_SECRET
SecretMissing(secret) == secret = ""

\* The body of the try of stripe_webhook raises.
StripeHandlingRaises(r) ==
  r.type = "checkout.session.completed" /\ GetRaises(GetOrEmpty(r.customer_details))

\* A request reaches stripe_webhook.
StripeWebhook ==
  /\ wpc = "idle"
  /\ req' \in StripeRequests
  /\ trace' = <<>>
  /\ resp' = NoResp
  /\ wpc' = "st_secret"
  /\ UNCHANGED <<env, policyVars, hookVars>>

\* if not STRIPE_WEBHOOK_SECRET: return "Missing STRIPE_WEBHOOK_SECRET", 500
StripeSecret ==
  /\ wpc = "st_secret"
  /\ IF SecretMissing(env.STRIPE_WEBHOOK_SECRET)
     THEN Respond("Missing STRIPE_WEBHOOK_SECRET", 500)
     ELSE wpc' = "st_read" /\ UNCHANGED resp
  /\ UNCHANGED <<env, req, trace, policyVars, hookVars>>

\* payload = request.get_data(...); sig_header = request.headers.get(...)
StripeRead ==
  /\ wpc = "st_read"
  /\ trace' = Append(trace, Called("read", "ok"))
  /\ wpc' = "st_construct"
  /\ UNCHANGED <<env, req, resp, policyVars, hookVars>>

\* event = stripe.Webhook.construct_event(...) and its two except clauses.
StripeConstruct ==
  /\ wpc = "st_construct"
  /\ trace' = Append(trace, Called("construct_event", req.construct))
  /\ IF req.construct = "ValueError" THEN Respond("Invalid payload", 400)
     ELSE IF req.construct = "SignatureVerificationError" THEN Respond("Invalid signature", 400)
     ELSE wpc' = "st_branch" /\ UNCHANGED resp
  /\ UNCHANGED <<env, req, policyVars, hookVars>>

\* The branch on etype inside try/except Exception.
StripeBranch ==
  /\ wpc = "st_branch"
  /\ trace' = Append(trace, Called("branch", req.type))
  /\ IF StripeHandlingRaises(req)
     THEN Respond("Webhook handler error", 500)
     ELSE Respond("OK", 200)
  /\ UNCHANGED <<env, req, policyVars, hookVars>>

\* Mutant of EnvComplete: PAYPAL_WEBHOOK_ID is not looked at.
EnvCompleteNoWebhookId(e) == e.PAYPAL_CLIENT_ID # "" /\ e.PAYPAL_CLIENT_SECRET # ""

\* PAYPAL_CLIENT_ID and PAYPAL_CLIENT_SECRET and PAYPAL_WEBHOOK_ID
EnvComplete(e) ==
  e.PAYPAL_CLIENT_ID # "" /\ e.PAYPAL_CLIENT_SECRET # "" /\ e.PAYPAL_WEBHOOK_ID # ""

\* return status == "SUCCESS"
StatusVerified(status) == status = "SUCCESS"

\* The body of the try of paypal_webhook raises.
PaypalHandlingRaises(r) ==
  /\ r.event_type = "PAYMENT.CAPTURE.COMPLETED"
  /\ GetRaises(GetOrEmpty(r.amount)) \/ GetRaises(GetOrEmptyOr(r.payer))

\* A request reaches paypal_webhook: body = request.get_json(silent=True) or {}
PaypalWebhook ==
  /\ wpc = "idle"
  /\ req' \in PaypalRequests
  /\ trace' = <<Called("read", "ok")>>
  /\ resp' = NoResp
  /\ wpc' = "pp_env"
  /\ UNCHANGED <<env, policyVars, hookVars>>

\* _paypal_verify_signature: the check of the three variables.
PaypalEnv ==
  /\ wpc = "pp_env"
  /\ IF EnvComplete(env)
     THEN wpc' = "pp_token" /\ UNCHANGED resp
     ELSE Respond("Invalid PayPal signature", 400)
  /\ UNCHANGED <<env, req, trace, policyVars, hookVars>>

\* access_token = _paypal_get_access_token(), or except Exception: return False
PaypalToken ==
  /\ wpc = "pp_token"
  /\ \E o \in TokenOutcomes :
       /\ trace' = Append(trace, Called("token", o))
       /\ IF o = "ok"
          THEN wpc' = "pp_verify" /\ UNCHANGED resp
          ELSE Respond("Invalid PayPal signature", 400)
  /\ UNCHANGED <<env, req, policyVars, hookVars>>

\* The verify-webhook-signature call; return status == "SUCCESS", or
\* except Exception: return False.
PaypalVerify ==
  /\ wpc = "pp_verify"
  /\ \E o \in VerifyOutcomes :
       /\ trace' = Append(trace, Called("verify", o))
       /\ IF StatusVerified(o)
          THEN wpc' = "pp_branch" /\ UNCHANGED resp
          ELSE Respond("Invalid PayPal signature", 400)
  /\ UNCHANGED <<env, req, policyVars, hookVars>>

\* The branch on event_type inside try/except Exception.
PaypalBranch ==
  /\ wpc = "pp_branch"
  /\ trace' = Append(trace, Called("branch", req.event_type))
  /\ IF PaypalHandlingRaises(req)
     THEN Respond("Webhook handler error", 500)
     ELSE Respond("OK", 200)
  /\ UNCHANGED <<env, req, policyVars, hookVars>>

\* The process is started under any configuration.
InitWeb == PolicyIdle /\ env \in Envs /\ WebIdle /\ HookIdle

NextWeb ==
  \/ StripeWebhook
  \/ StripeSecret
  \/ StripeRead
  \/ StripeConstruct
  \/ StripeBranch
  \/ PaypalWebhook
  \/ PaypalEnv
  \/ PaypalToken
  \/ PaypalVerify
  \/ PaypalBranch

SpecWeb == InitWeb /\ [][NextWeb]_vars

\* ============================================= api_hooks.py: record_purchase
\* The characters of an email: whitespace and any other.
Chars == {" ", "x"}
Strings == UNION {[1..n -> Chars] : n \in 0..MaxEmailLen}
Str(s) == [given |-> TRUE, text |-> s]

\* email: Optional[str]
Emails == {None} \cup {Str(s) : s \in Strings}

\* (email or "")
OrEmpty(e) == IF e.given THEN e.text ELSE <<>>

RECURSIVE LStrip(_)
LStrip(s) == IF s # <<>> /\ Head(s) = " " THEN LStrip(Tail(s)) ELSE s

RECURSIVE RStrip(_)
RStrip(s) == IF s # <<>> /\ s[Len(s)] = " " THEN RStrip(SubSeq(s, 1, Len(s) - 1)) ELSE s

\* Mutant of Strip: the text is taken as it is.
NoStrip(s) == s

\* str.strip()
Strip(s) == RStrip(LStrip(s))

\* proc.returncode
ExitCodes == {0, 1, 2}

\* sys.path.insert(0, x)
Insert0(path, x) == <<x>> \o path

\* sys.path.remove(x) inside try/except ValueError: the first x goes, if any.
Remove(path, x) ==
  IF \E i \in 1..Len(path) : path[i] = x
  THEN LET k == CHOOSE i \in 1..Len(path) : path[i] = x /\ \A j \in 1..(i - 1) : path[j] # x
       IN  SubSeq(path, 1, k - 1) \o SubSeq(path, k + 1, Len(path))
  ELSE path

\* record_purchase(email): buyer = (email or "").strip(), the mkdir.
RecordPurchase ==
  /\ hpc = "idle"
  /\ purchases < MaxCalls
  /\ \E e \in Emails :
       /\ email' = e
       /\ buyer' = Strip(OrEmpty(e))
  /\ code' = NoCode
  /\ hlog' = <<>>
  /\ purchases' = purchases + 1
  /\ hpc' = "h_run"
  /\ UNCHANGED <<report, sys_path, policyVars, webVars>>

\* _run_scraper: subprocess.run starts the scraper and waits.
RunScraper ==
  /\ hpc = "h_run"
  /\ hlog' = Append(hlog, "scraper_start")
  /\ hpc' = "h_wait"
  /\ UNCHANGED <<email, buyer, code, report, sys_path, purchases, policyVars, webVars>>

\* The scraper exits, having written the report or not; code = its exit code.
ScraperExit ==
  /\ hpc = "h_wait"
  /\ code' \in ExitCodes
  /\ report' \in {report, TRUE}
  /\ hlog' = Append(hlog, "scraper_exit")
  /\ hpc' = "h_decide"
  /\ UNCHANGED <<email, buyer, sys_path, purchases, policyVars, webVars>>

\* if code == 0 and buyer: _email_to_buyer(report, buyer)
Decide ==
  /\ hpc = "h_decide"
  /\ IF code = 0 /\ buyer # <<>>
     THEN hlog' = Append(hlog, "email_to_buyer") /\ hpc' = "m_exists"
     ELSE hpc' = "idle" /\ UNCHANGED hlog
  /\ UNCHANGED <<email, buyer, code, report, sys_path, purchases, policyVars, webVars>>

\* _email_to_buyer: if not report_path.exists(): return False; else
\* sys.path.insert(0, str(WEB_SRC)).
EmailExists ==
  /\ hpc = "m_exists"
  /\ IF report
     THEN sys_path' = Insert0(sys_path, WEB_SRC) /\ hpc' = "m_import"
     ELSE hpc' = "idle" /\ UNCHANGED sys_path
  /\ UNCHANGED <<email, buyer, code, report, hlog, purchases, policyVars, webVars>>

\* try: from delivery import send_report / except Exception: return False
EmailImport ==
  /\ hpc = "m_import"
  /\ \E imported \in BOOLEAN :
       /\ hlog' = Append(hlog, IF imported THEN "import" ELSE "import_failed")
       /\ hpc' = IF imported THEN "m_send" ELSE "idle"
  /\ UNCHANGED <<email, buyer, code, report, sys_path, purchases, policyVars, webVars>>

\* try: ok = send_report(...); return bool(ok) / except: return False /
\* finally: sys.path.remove(str(WEB_SRC))
EmailSend ==
  /\ hpc = "m_send"
  /\ \E sent \in {"sent", "not_sent", "send_raised"} : hlog' = Append(hlog, sent)
  /\ sys_path' = Remove(sys_path, WEB_SRC)
  /\ hpc' = "idle"
  /\ UNCHANGED <<email, buyer, code, report, purchases, policyVars, webVars>>

InitHooks == PolicyIdle /\ env = NoEnv /\ WebIdle /\ HookIdle

NextHooks ==
  \/ RecordPurchase
  \/ RunScraper
  \/ ScraperExit
  \/ Decide
  \/ EmailExists
  \/ EmailImport
  \/ EmailSend

SpecHooks == InitHooks /\ [][NextHooks]_vars

\* ================================================================== claims
\* The last call of p was operation o and has returned or raised.
Done(p, o) == pc[p] = "idle" /\ op[p] = o /\ ret[p].st # "none"

\* The last call of p was operation o and returned normally.
Returned(p, o) == Done(p, o) /\ ret[p].st = "ok"

\* The record ensure_priors creates.
Prior(n) == Row(n, Num(Unit), Num(Unit))

\* The record of arm n in table tbl is (al, be), in units of 1.0.
Holds(tbl, n, al, be) == HasRow(tbl, n) /\ RowOf(tbl, n) = Row(n, Num(al * Unit), Num(be * Unit))

\* C1: no lost update.  When every caller has returned normally from an
\* update_reward(n, 1.0) that it began while the record of n was the prior
\* (alpha=1, beta=1), the record of n is (alpha=3, beta=1).
C1_NoLostUpdate ==
  \A n \in ArmNames :
    (\A p \in Procs :
        /\ Returned(p, "update_reward")
        /\ arg[p] = [arm |-> n, reward |-> Unit]
        /\ Holds(pre[p], n, 1, 1))
    => Holds(bandit, n, 3, 1)

\* C2: the insert-if-absent of _ensure_priors is race-safe.  In every step,
\* (a) no caller gets a duplicate-key error for an arm whose record is the
\* prior that _ensure_priors inserted, and (b) the commit of _ensure_priors
\* leaves every record that is already in the table as it is.
C2_EnsurePriorsRaceSafe ==
  [][\A p \in Procs :
       /\ (ret[p].st = "none" /\ ret'[p].exc = "IntegrityError")
            => RowOf(bandit, arg[p].arm) # Prior(arg[p].arm)
       /\ (pc[p] = "e_loop" /\ pc'[p] # "e_loop")
            => \A n \in Names(bandit) : HasRow(bandit', n) /\ RowOf(bandit', n) = RowOf(bandit, n)
    ]_vars

\* C8: a record is mutated only by update_reward.  In every step, the alpha
\* and the beta of every record stay or grow, and a record changes only in the
\* commit of an update_reward for its arm.
C8_OnlyUpdateRewardMutates ==
  [][\A n \in Names(bandit) :
       /\ HasRow(bandit', n)
       /\ RowOf(bandit', n).alpha.v >= RowOf(bandit, n).alpha.v
       /\ RowOf(bandit', n).beta.v >= RowOf(bandit, n).beta.v
       /\ RowOf(bandit', n) # RowOf(bandit, n)
            => \E p \in Procs : pc[p] = "u_commit" /\ pc'[p] = "idle" /\ arg[p].arm = n
    ]_vars

\* ------------------------------------------------- claims on one caller
CatalogNames == {catalog[i].name : i \in 1..Len(catalog)}

\* C3: with a non-empty catalog, sample_arm does not raise and returns an arm
\* of the catalog, whatever records the table holds (records of arms that are
\* not in the catalog included).
C3_SampleArmReturnsCatalogArm ==
  \A p \in Procs :
    (Done(p, "sample_arm") /\ catalog # <<>>)
    => (ret[p].st = "ok" /\ ret[p].arm \in Range(catalog))

\* C4: after ensure_priors on a non-empty catalog the table holds exactly one
\* record for every arm of the catalog, the prior (1.0, 1.0) if this call
\* created it and the old record otherwise; every record the table held is
\* unchanged; and a call that finds every arm of the catalog in the table
\* (as a second call with the same catalog does) changes nothing at all.
C4_EnsurePriorsIdempotent ==
  \A p \in Procs :
    (Done(p, "ensure_priors") /\ catalog # <<>>)
    => /\ ret[p].st = "ok"
       /\ \A n \in CatalogNames :
            /\ Cardinality({i \in 1..Len(bandit) : bandit[i].arm = n}) = 1
            /\ RowOf(bandit, n) = IF HasRow(pre[p], n) THEN RowOf(pre[p], n) ELSE Prior(n)
       /\ \A n \in Names(pre[p]) : HasRow(bandit, n) /\ RowOf(bandit, n) = RowOf(pre[p], n)
       /\ (CatalogNames \subseteq Names(pre[p])) => bandit = pre[p]

\* A second ensure_priors call on a two-arm catalog whose records the first
\* call created: nothing changed.
C4_Witness ==
  \E p \in Procs :
    /\ Returned(p, "ensure_priors")
    /\ calls = 2
    /\ Len(catalog) = 2
    /\ bandit = pre[p]
    /\ \A n \in CatalogNames : Holds(bandit, n, 1, 1)

\* C5: one update_reward(n, reward) on an existing record changes exactly one
\* counter by exactly 1.0: alpha if reward >= 0.5 (0.5 included), beta if
\* reward < 0.5, also for rewards outside [0,1]; no other record changes.
C5_UpdateRewardIncrement ==
  \A p \in Procs :
    (Done(p, "update_reward") /\ HasRow(pre[p], arg[p].arm))
    => /\ ret[p].st = "ok"
       /\ HasRow(bandit, arg[p].arm)
       /\ LET old == RowOf(pre[p], arg[p].arm)
              new == RowOf(bandit, arg[p].arm)
          IN  IF arg[p].reward >= Threshold
              THEN new.alpha = Num(old.alpha.v + Unit) /\ new.beta = old.beta
              ELSE new.alpha = old.alpha /\ new.beta = Num(old.beta.v + Unit)
       /\ \A m \in Names(pre[p]) \ {arg[p].arm} : RowOf(bandit, m) = RowOf(pre[p], m)

\* update_reward(n, 0.5) on a record (2, 1) that an earlier call wrote: (3, 1).
C5_Witness ==
  \E p \in Procs :
    /\ Returned(p, "update_reward")
    /\ arg[p].reward = Threshold
    /\ Holds(pre[p], arg[p].arm, 2, 1)
    /\ Holds(bandit, arg[p].arm, 3, 1)

\* C6: update_reward on an arm without a record stores (2.0, 1.0) if
\* reward >= 0.5 and (1.0, 2.0) otherwise, which is the table that the write
\* of ensure_priors for that arm followed by the write of update_reward on
\* the prior gives; the records of the other arms are unchanged.
C6_UpdateRewardLazyPrior ==
  \A p \in Procs :
    (Done(p, "update_reward") /\ ~HasRow(pre[p], arg[p].arm))
    => /\ ret[p].st = "ok"
       /\ IF arg[p].reward >= Threshold
          THEN Holds(bandit, arg[p].arm, 2, 1)
          ELSE Holds(bandit, arg[p].arm, 1, 2)
       /\ bandit = NextWrite(PriorWrite(pre[p], arg[p].arm), arg[p].arm,
                             Prior(arg[p].arm), arg[p].reward)
       /\ \A m \in Names(pre[p]) : RowOf(bandit, m) = RowOf(pre[p], m)

\* update_reward("b", reward < 0.5) with a record of "a" and none of "b".
C6_Witness ==
  \E p \in Procs :
    /\ Returned(p, "update_reward")
    /\ arg[p].arm = "b"
    /\ HasRow(pre[p], "a")
    /\ ~HasRow(pre[p], "b")
    /\ Holds(bandit, "b", 1, 2)

\* C7: sample_arm with an empty catalog fails with ConfigurationError, in
\* every state of the table, and returns no arm.
C7_EmptyCatalogConfigurationError ==
  \A p \in Procs :
    (Done(p, "sample_arm") /\ catalog = <<>>) => ret[p] = Raised("ConfigurationError")

\* C9: no arm is starved.  When sample_arm is about to draw and every record
\* it fetched has alpha > 0 and beta > 0, every arm of the catalog is the
\* result of sample_arm for some outcome of the draws.
C9_NoArmStarved ==
  \A p \in Procs :
    (/\ pc[p] = "s_draw"
     /\ \A i \in 1..Len(rows[p]) :
          /\ Addable(rows[p][i])
          /\ rows[p][i].alpha.v > 0
          /\ rows[p][i].beta.v > 0)
    => \A a \in Range(catalog) :
         \E d \in [1..Len(rows[p]) -> Draws] : SampleResult(rows[p], d, catalog) = Ok(a)

\* sample_arm about to draw for a two-arm catalog where "b" has two rewards
\* and "a" has none.
C9_Witness ==
  \E p \in Procs :
    /\ pc[p] = "s_draw"
    /\ Len(catalog) = 2
    /\ Holds(rows[p], "a", 1, 1)
    /\ Holds(rows[p], "b", 3, 1)

\* A value that is no positive number.
Malformed(val) == IF IsReal(val) THEN val.v <= 0 ELSE TRUE

\* C10: when the record of a catalog arm is malformed (alpha or beta
\* non-numeric, negative or zero), sample_arm does not fail, returns an arm of
\* the catalog and leaves every stored record as it was.  (Stated for tables
\* that hold no record of an arm outside the catalog.)
C10_MalformedRecordClamped ==
  \A p \in Procs :
    (/\ Done(p, "sample_arm")
     /\ catalog # <<>>
     /\ Names(pre[p]) \subseteq CatalogNames
     /\ \E n \in Names(pre[p]) :
          Malformed(RowOf(pre[p], n).alpha) \/ Malformed(RowOf(pre[p], n).beta))
    => /\ ret[p].st = "ok"
       /\ ret[p].arm \in Range(catalog)
       /\ \A n \in Names(pre[p]) : HasRow(bandit, n) /\ RowOf(bandit, n) = RowOf(pre[p], n)

\* ---------------------------------------------- claims on a failing store
\* The step is one of caller p, inside a call.
Moves(p) == pc[p] # "idle" /\ (pc'[p] # pc[p] \/ idx'[p] # idx[p])

\* C11: ensure_priors persists its new records all or nothing.  A step of an
\* invocation (of _ensure_priors, alone or inside sample_arm) leaves the
\* committed table, which is what every other caller reads, unchanged, except
\* the commit that ends the invocation, after which every arm the invocation
\* wrote has its prior record; a step in which the invocation fails leaves
\* the committed table unchanged.
C11_EnsurePriorsAllOrNothing ==
  [][\A p \in Procs :
       (Moves(p) /\ pc[p] = "e_loop")
       => IF pc'[p] # "e_loop" /\ ret'[p].st # "raise" /\ changed[p]
          THEN \A n \in Inserted(p) : HasRow(bandit', n) /\ RowOf(bandit', n) = Prior(n)
          ELSE bandit' = bandit
    ]_vars

\* An invocation has written one of the two arms of its catalog and not yet
\* committed; the other caller has looked that arm up in the committed
\* table, which holds neither, and found no record.
C11_Witness ==
  \E p, q \in Procs :
    /\ p # q
    /\ pc[p] = "e_loop"
    /\ Len(arms[p]) = 2
    /\ idx[p] = 2
    /\ Len(tx[p]) = 1
    /\ bandit = <<>>
    /\ pc[q] = "u_write"
    /\ arg[q].arm = arms[p][1].name
    /\ rows[q] = <<>>

C13_NeverDestroysRecord ==
  [][/\ Names(bandit) \subseteq Names(bandit')
     /\ \A p \in Procs :
          (Moves(p) /\ op[p] \in {"ensure_priors", "sample_arm"})
          => \A n \in Names(bandit) \ CatalogNames : RowOf(bandit', n) = RowOf(bandit, n)
    ]_vars

\* ensure_priors has created the record of the catalog's arm "a" in a table
\* that held the record (2, 1) of "b", an arm no longer in the catalog.
C13_Witness ==
  \E p \in Procs :
    /\ Returned(p, "ensure_priors")
    /\ CatalogNames = {"a"}
    /\ Holds(pre[p], "b", 2, 1)
    /\ ~HasRow(pre[p], "a")
    /\ Holds(bandit, "b", 2, 1)
    /\ HasRow(bandit, "a")

\* The first position of the greatest of the draws d.
FirstGreatest(d) ==
  CHOOSE w \in DOMAIN d :
    /\ \A j \in DOMAIN d : d[j] <= d[w]
    /\ \A j \in DOMAIN d : j < w => d[j] < d[w]

\* C14: whatever the draws, the arm sample_arm returns is the catalog entry,
\* metadata included, named by the fetched record with the greatest draw, and
\* by the first such record in the order of the fetch when draws are equal.
C14_SampleArmGreatestDraw ==
  \A p \in Procs :
    (pc[p] = "s_draw" /\ rows[p] # <<>>)
    => \A d \in [1..Len(rows[p]) -> Draws] :
         LET r == SampleResult(rows[p], d, catalog)
             n == rows[p][FirstGreatest(d)].arm
         IN  r.st = "ok"
             => /\ r.arm \in Range(catalog)
                /\ r.arm.name = n
                /\ r.arm = Arm(n)

\* sample_arm is about to draw for two records fetched in the order "b", "a"
\* with the catalog in the order "a", "b": equal draws give "b".
C14_Witness ==
  \E p \in Procs :
    /\ pc[p] = "s_draw"
    /\ op[p] = "sample_arm"
    /\ Len(rows[p]) = 2
    /\ rows[p][1].arm = "b"
    /\ catalog = <<Arm("a"), Arm("b")>>
    /\ SampleResult(rows[p], [i \in 1..2 |-> MaxDraw], catalog) = Ok(Arm("b"))

\* ------------------------------------------------- claims on the webhooks
\* The outbound calls and reads of the request served, in order.
Calls == [i \in 1..Len(trace) |-> trace[i].call]

Branched == \E i \in 1..Len(trace) : trace[i].call = "branch"

\* The three PayPal variables are set.
PaypalEnvSet ==
  /\ env.PAYPAL_CLIENT_ID # ""
  /\ env.PAYPAL_CLIENT_SECRET # ""
  /\ env.PAYPAL_WEBHOOK_ID # ""

\* The three PayPal variables are set, the token request succeeded and the
\* verification answered SUCCESS.
PaypalAllPassed ==
  /\ PaypalEnvSet
  /\ \E i \in 1..Len(trace) : trace[i] = Called("token", "ok")
  /\ \E i \in 1..Len(trace) : trace[i] = Called("verify", "SUCCESS")

\* C15: the PayPal webhook fails closed.  The handler branches on the event
\* type, and answers 200, only when the three variables are set, the token
\* request succeeded and the verification answered SUCCESS; the token is
\* requested only with the three variables set, the verification only after
\* the token, the branch only after the verification; and a request that
\* did not pass all three is answered 400 without a branch.
C15_PaypalFailsClosed ==
  req.route = "paypal"
  => /\ (Branched \/ resp.code = 200) => PaypalAllPassed
     /\ \E n \in 1..4 : Calls = SubSeq(<<"read", "token", "verify", "branch">>, 1, n)
     /\ Len(trace) >= 2 => PaypalEnvSet
     /\ Len(trace) >= 3 => trace[2].out = "ok"
     /\ Len(trace) >= 4 => trace[3].out = "SUCCESS"
     /\ (wpc = "idle" /\ ~PaypalAllPassed) => (resp.code = 400 /\ ~Branched)

\* A PayPal event was answered 200 after the token request, the verification
\* and the branch, in this order.
C15_Witness ==
  /\ req.route = "paypal"
  /\ wpc = "idle"
  /\ resp.code = 200
  /\ Calls = <<"read", "token", "verify", "branch">>

\* C16: the Stripe webhook answers 500 before it reads the request when
\* STRIPE_WEBHOOK_SECRET is empty, 400 without a branch on the event type
\* when construct_event rejects the payload or the signature, and 200 for
\* every verified event, of a handled type or not.
C16_StripeVerifiedAnswers200 ==
  (req.route = "stripe" /\ wpc = "idle")
  => IF env.STRIPE_WEBHOOK_SECRET = ""
     THEN resp.code = 500 /\ trace = <<>>
     ELSE IF req.construct # "event"
          THEN resp.code = 400 /\ ~Branched
          ELSE resp.code = 200

\* --------------------------------------------- claims on record_purchase
\* The email has a character that is not whitespace.
NonBlank(e) == e.given /\ \E i \in 1..Len(e.text) : e.text[i] # " "

Attempted == \E i \in 1..Len(hlog) : hlog[i] = "email_to_buyer"

\* C17: a call of record_purchase starts the scraper once, waits for its
\* exit, and only then, and only when the exit code is 0 and the email has a
\* character that is not whitespace, calls _email_to_buyer; a call that has
\* returned has run the scraper exactly once, to its exit.
C17_ScraperThenEmail ==
  /\ Len(hlog) >= 1 => hlog[1] = "scraper_start"
  /\ Len(hlog) >= 2 => hlog[2] = "scraper_exit"
  /\ \A i \in 2..Len(hlog) : hlog[i] # "scraper_start"
  /\ \A i \in 3..Len(hlog) : hlog[i] # "scraper_exit"
  /\ \A i \in 1..Len(hlog) : hlog[i] = "email_to_buyer" => i = 3
  /\ Attempted => (code = 0 /\ NonBlank(email))
  /\ hpc \in {"m_exists", "m_import", "m_send"} => Attempted
  /\ (hpc = "idle" /\ purchases > 0) => Len(hlog) >= 2

\* record_purchase was called with an email padded with whitespace, the
\* scraper exited with 0 and _email_to_buyer was called.
C17_Witness ==
  /\ hpc = "idle"
  /\ email = Str(<<" ", "x">>)
  /\ code = 0
  /\ hlog[3] = "email_to_buyer"
  /\ Len(hlog) >= 3

\* C18: _email_to_buyer leaves sys.path as it found it on every return path,
\* so sys.path is the initial one whenever no call is running.
C18_SysPathRestored == hpc = "idle" => sys_path = InitialSysPath

====
